---- MODULE Spec2Model ----
(***************************************************************************)
(* One run of streamlit_app.py is one pass over the script: load the       *)
(* reviews table, read the sidebar widgets, filter, compute the two        *)
(* aggregates, read the question and, when it is non-empty, build the      *)
(* prompt and call the completion service.  Streamlit re-runs the script   *)
(* from the top on every interaction (Rerun).                              *)
(*                                                                         *)
(* A DataFrame is a sequence of rows; a row is a function from the column  *)
(* names of the table to cell values.  A DATE cell and a date widget value *)
(* are records [kind, t]: kind "str" is text that parses to the timestamp  *)
(* t, "bad" is text that does not parse, "null" a missing value, "ts" a    *)
(* pandas Timestamp at tick t, "nat" is NaT, "date" a calendar date (t is  *)
(* the day number) and "none" is Python's None.  A timestamp tick counts   *)
(* TicksPerDay steps per day; tick d * TicksPerDay is midnight of day d.   *)
(* SENTIMENT_SCORE cells are integers (scores on a fixed decimal scale)    *)
(* and a mean is the exact fraction [num, den] in lowest terms.            *)
(*                                                                         *)
(* Input domain: the loaded table has at least one row, its PRODUCT,       *)
(* REGION, STATUS and SENTIMENT_SCORE cells are non-null, and when it has  *)
(* a DATE column at least one DATE parses (the observed minimum and        *)
(* maximum exist).                                                         *)
(***************************************************************************)
EXTENDS Integers, Sequences, FiniteSets, TLC

\* ------------------------------------------------------------ bounds
MaxRowsColumns == 2
MaxRowsDates == 2
MaxRowsRegions == 3
MaxRowsIssues == 2
MaxDay == 1
MaxScore == 2

TimesOfDay == {0, 1}           \* midnight, and a later time of the same day
TicksPerDay == Cardinality(TimesOfDay)

Columns == {"PRODUCT", "REGION", "STATUS", "DATE", "SENTIMENT_SCORE"}
ColumnOrder == <<"PRODUCT", "REGION", "STATUS", "DATE", "SENTIMENT_SCORE">>
ProductOrder == <<"p1", "p2">>
RegionOrder == <<"A", "B", "C">>
StatusOrder == <<"late", "ok">>
Questions == {"", "which region is worst?"}

Range(s) == {s[i] : i \in DOMAIN s}

\* ------------------------------------------------------------ cell values
Str(t) == [kind |-> "str", t |-> t]
Bad == [kind |-> "bad", t |-> 0]
Null == [kind |-> "null", t |-> 0]
Timestamp(t) == [kind |-> "ts", t |-> t]
NaT == [kind |-> "nat", t |-> 0]
Date(d) == [kind |-> "date", t |-> d]
None == [kind |-> "none", t |-> 0]

Ticks == 0 .. ((MaxDay + 1) * TicksPerDay - 1)
RawDates == {Str(t) : t \in Ticks} \cup {Bad, Null}

VARIABLES
    reviews_with_sentiment, \* the table in the warehouse
    df,                     \* the loaded DataFrame
    pc,                     \* position of the run in the script
    defined,                \* names the run has assigned so far
    products, selected_products,
    min_date, max_date, start_date, end_date,
    filtered_df,
    region_sentiment, chart_region,
    grouped_issues, num_cols,
    user_question, df_string, prompt,
    calls,                  \* openai.ChatCompletion.create calls of this run
    written,                \* the run wrote the answer with st.write
    error                   \* the exception that ended the run, "" when none

vars == <<reviews_with_sentiment, df, pc, defined, products, selected_products,
          min_date, max_date, start_date, end_date, filtered_df,
          region_sentiment, chart_region, grouped_issues, num_cols,
          user_question, df_string, prompt, calls, written, error>>

Cols == DOMAIN df[1]

\* ------------------------------------------------------------ input tables
\* A row over the columns cols with the given cell values.
Row(cols, p, r, s, d, x) ==
    [c \in cols |-> CASE c = "PRODUCT" -> p
                      [] c = "REGION" -> r
                      [] c = "STATUS" -> s
                      [] c = "DATE" -> d
                      [] c = "SENTIMENT_SCORE" -> x]

TablesOf(rows, maxRows) == UNION {[1 .. n -> rows] : n \in 1 .. maxRows}

\* Tables over every set of columns; a DATE cell parses or does not.
TablesColumns ==
    UNION {TablesOf({Row(cols, p, "A", "ok", d, 1) :
                        p \in Range(ProductOrder), d \in {Str(0), Bad}},
                    MaxRowsColumns) : cols \in SUBSET Columns}

\* Tables with every column whose rows vary in PRODUCT and DATE.
TablesDates ==
    TablesOf({Row(Columns, p, "A", "ok", d, 1) :
                 p \in Range(ProductOrder), d \in RawDates},
             MaxRowsDates)

\* Tables with every column whose rows vary in REGION and SENTIMENT_SCORE.
TablesRegions ==
    TablesOf({Row(Columns, "p1", r, "ok", Str(0), x) :
                 r \in Range(RegionOrder), x \in 0 .. MaxScore},
             MaxRowsRegions)

\* Tables with every column whose rows vary in the (REGION, PRODUCT, STATUS)
\* triple and in SENTIMENT_SCORE.
TablesIssues ==
    TablesOf({Row(Columns, p, r, s, Str(0), x) :
                 p \in Range(ProductOrder), r \in {"A", "B"},
                 s \in Range(StatusOrder), x \in {0, MaxScore}},
             MaxRowsIssues)

Loadable(t) ==
    "DATE" \in DOMAIN t[1] => \E i \in DOMAIN t : t[i]["DATE"].kind = "str"

\* ------------------------------------------------------------ pandas helpers
ColumnOf(t, c) == [i \in 1 .. Len(t) |-> t[i][c]]

\* Series.unique(): the distinct values in order of first appearance.
Unique(s) ==
    LET F[i \in 0 .. Len(s)] ==
            IF i = 0 THEN <<>>
            ELSE IF s[i] \in Range(F[i - 1]) THEN F[i - 1]
                 ELSE Append(F[i - 1], s[i])
    IN  F[Len(s)]

\* pd.to_datetime: text that parses and calendar dates become Timestamps (a
\* date becomes midnight of its day); with errors="coerce" anything else is NaT.
ToDatetime(v) ==
    CASE v.kind = "str" -> Timestamp(v.t)
      [] v.kind = "ts" -> v
      [] v.kind = "date" -> Timestamp(v.t * TicksPerDay)
      [] OTHER -> NaT

ParseDates(t) ==
    [i \in 1 .. Len(t) |-> [t[i] EXCEPT !["DATE"] = ToDatetime(@)]]

ValidTicks(t) ==
    {t[i]["DATE"].t : i \in {j \in 1 .. Len(t) : t[j]["DATE"].kind = "ts"}}

\* Series.min() / Series.max() skip NaT.
SeriesMin(t) ==
    IF ValidTicks(t) = {} THEN NaT
    ELSE Timestamp(CHOOSE m \in ValidTicks(t) : \A k \in ValidTicks(t) : m <= k)

SeriesMax(t) ==
    IF ValidTicks(t) = {} THEN NaT
    ELSE Timestamp(CHOOSE m \in ValidTicks(t) : \A k \in ValidTicks(t) : m >= k)

\* st.date_input turns a Timestamp into its calendar date.
DateOf(ts) == Date(ts.t \div TicksPerDay)

\* Python truthiness of a date_input result or None.
Truthy(v) == v.kind # "none"

\* Timestamp comparison; a comparison with NaT is False.
GE(a, b) == a.kind = "ts" /\ b.kind = "ts" /\ a.t >= b.t
LE(a, b) == a.kind = "ts" /\ b.kind = "ts" /\ a.t <= b.t

\* ------------------------------------------------------------ initial state
Init ==
    /\ reviews_with_sentiment \in
           {t \in TablesColumns \cup TablesDates \cup TablesRegions \cup TablesIssues :
               Loadable(t)}
    /\ df = reviews_with_sentiment
    /\ pc = "products"
    /\ defined = {"df"}
    /\ products = <<>>
    /\ selected_products = {}
    /\ min_date = NaT
    /\ max_date = NaT
    /\ start_date = None
    /\ end_date = None
    /\ filtered_df = <<>>
    /\ region_sentiment = [index |-> <<>>, values |-> <<>>]
    /\ chart_region = [data |-> <<>>, ysort |-> ""]
    /\ grouped_issues = <<>>
    /\ num_cols = 0
    /\ user_question = ""
    /\ df_string = <<>>
    /\ prompt = <<>>
    /\ calls = 0
    /\ written = FALSE
    /\ error = ""

\* ------------------------------------------------------------ sidebar
\* Lines 40-41: the multiselect offers the distinct products and returns the
\* user's choice among them (all of them by default).
SelectProducts ==
    /\ pc = "products"
    /\ "PRODUCT" \in Cols
    /\ products' = Unique(ColumnOf(df, "PRODUCT"))
    /\ \E chosen \in SUBSET Range(products') : selected_products' = chosen
    /\ defined' = defined \cup {"products", "selected_products"}
    /\ pc' = "date"
    /\ UNCHANGED <<reviews_with_sentiment, df, min_date, max_date, start_date,
                   end_date, filtered_df, region_sentiment, chart_region,
                   grouped_issues, num_cols, user_question, df_string, prompt,
                   calls, written, error>>

\* Line 40 on a table without a PRODUCT column.
SelectProductsKeyError ==
    /\ pc = "products"
    /\ "PRODUCT" \notin Cols
    /\ error' = "KeyError: 'PRODUCT'"
    /\ pc' = "error"
    /\ UNCHANGED <<reviews_with_sentiment, df, defined, products,
                   selected_products, min_date, max_date, start_date, end_date,
                   filtered_df, region_sentiment, chart_region, grouped_issues,
                   num_cols, user_question, df_string, prompt, calls, written>>

\* Lines 44-52: parse DATE in place, take the observed range, and read the
\* date range the user chose inside it.
DateRange ==
    /\ pc = "date"
    /\ "DATE" \in Cols
    /\ df' = ParseDates(df)
    /\ min_date' = SeriesMin(df')
    /\ max_date' = SeriesMax(df')
    /\ \E s, e \in DateOf(min_date').t .. DateOf(max_date').t :
          /\ s <= e
          /\ start_date' = Date(s)
          /\ end_date' = Date(e)
    /\ defined' = defined \cup {"min_date", "max_date", "start_date", "end_date"}
    /\ pc' = "filter"
    /\ UNCHANGED <<reviews_with_sentiment, products, selected_products,
                   filtered_df, region_sentiment, chart_region, grouped_issues,
                   num_cols, user_question, df_string, prompt, calls, written,
                   error>>

\* Line 47 while the user has picked only the first day of a new range: the
\* widget returns a 1-tuple and the unpacking raises.
DateRangePartial ==
    /\ pc = "date"
    /\ "DATE" \in Cols
    /\ df' = ParseDates(df)
    /\ min_date' = SeriesMin(df')
    /\ max_date' = SeriesMax(df')
    /\ defined' = defined \cup {"min_date", "max_date"}
    /\ error' = "ValueError: not enough values to unpack"
    /\ pc' = "error"
    /\ UNCHANGED <<reviews_with_sentiment, products, selected_products,
                   start_date, end_date, filtered_df, region_sentiment,
                   chart_region, grouped_issues, num_cols, user_question,
                   df_string, prompt, calls, written>>

\* Lines 53-54.
NoDateColumn ==
    /\ pc = "date"
    /\ "DATE" \notin Cols
    /\ start_date' = None
    /\ end_date' = None
    /\ defined' = defined \cup {"start_date", "end_date"}
    /\ pc' = "filter"
    /\ UNCHANGED <<reviews_with_sentiment, df, products, selected_products,
                   min_date, max_date, filtered_df, region_sentiment,
                   chart_region, grouped_issues, num_cols, user_question,
                   df_string, prompt, calls, written, error>>

\* ------------------------------------------------------------ filter
\* Line 57: df[df['PRODUCT'].isin(selected_products)].
IsinSelected(r) == r["PRODUCT"] \in selected_products

\* Mutant of FilterProducts: the isin mask negated.
NotIsinSelected(r) == ~IsinSelected(r)

FilterProductsNegated(t) == SelectSeq(t, NotIsinSelected)

FilterProducts(t) == SelectSeq(t, IsinSelected)

\* Lines 59-60: both bounds are pd.to_datetime of the chosen dates.
InDateMask(r) ==
    /\ GE(r["DATE"], ToDatetime(start_date))
    /\ LE(r["DATE"], ToDatetime(end_date))

FilterDates(t) == SelectSeq(t, InDateMask)

\* Lines 57-60.
Filter ==
    /\ pc = "filter"
    /\ filtered_df' = IF Truthy(start_date) /\ Truthy(end_date)
                      THEN FilterDates(FilterProducts(df))
                      ELSE FilterProducts(df)
    /\ defined' = defined \cup {"filtered_df"}
    /\ pc' = "region"
    /\ UNCHANGED <<reviews_with_sentiment, df, products, selected_products,
                   min_date, max_date, start_date, end_date, region_sentiment,
                   chart_region, grouped_issues, num_cols, user_question,
                   df_string, prompt, calls, written, error>>

\* ------------------------------------------------------------ aggregation
RECURSIVE SumSeq(_)
SumSeq(xs) == IF xs = <<>> THEN 0 ELSE Head(xs) + SumSeq(Tail(xs))

RECURSIVE GCD(_, _)
GCD(a, b) == IF b = 0 THEN a ELSE GCD(b, a % b)

\* Mutant of Mean: integer division instead of the exact mean.
MeanFloored(xs) == [num |-> SumSeq(xs) \div Len(xs), den |-> 1]

\* Series.mean() of a non-empty group: the exact fraction in lowest terms.
Mean(xs) ==
    LET g == GCD(Len(xs), SumSeq(xs))
    IN  [num |-> SumSeq(xs) \div g, den |-> Len(xs) \div g]

MeanLE(a, b) == a.num * b.den <= b.num * a.den

\* The (REGION, PRODUCT, STATUS) keys in the lexicographic order groupby
\* sorts them in.
TripleOrder ==
    LET nP == Len(ProductOrder)
        nS == Len(StatusOrder)
    IN  [i \in 1 .. Len(RegionOrder) * nP * nS |->
            <<RegionOrder[((i - 1) \div (nP * nS)) + 1],
              ProductOrder[(((i - 1) \div nS) % nP) + 1],
              StatusOrder[((i - 1) % nS) + 1]>>]

\* Mutant of TripleKey: STATUS left out of the grouping key.
TripleKeyNoStatus(r) == <<r["REGION"], r["PRODUCT"], "ok">>

RegionKey(r) == r["REGION"]
TripleKey(r) == <<r["REGION"], r["PRODUCT"], r["STATUS"]>>

\* The grouping key of every row of t.
RegionKeys(t) == [i \in 1 .. Len(t) |-> RegionKey(t[i])]
TripleKeys(t) == [i \in 1 .. Len(t) |-> TripleKey(t[i])]

\* The SENTIMENT_SCORE cells of the rows of t whose key is k, in row order.
ScoresOf(t, keys, k) ==
    LET F[i \in 0 .. Len(t)] ==
            IF i = 0 THEN <<>>
            ELSE IF keys[i] = k
                 THEN Append(F[i - 1], t[i]["SENTIMENT_SCORE"])
                 ELSE F[i - 1]
    IN  F[Len(t)]

\* groupby(keys)['SENTIMENT_SCORE'].mean(): one entry per key that occurs in
\* t, in sorted key order, as a Series [index, values].
GroupByMean(t, keys, order) ==
    LET present(k) == k \in Range(keys)
        index == SelectSeq(order, present)
    IN  [index |-> index,
         values |-> [i \in 1 .. Len(index) |-> Mean(ScoresOf(t, keys, index[i]))]]

Ascending(vals) ==
    \A i, j \in 1 .. Len(vals) : i < j => MeanLE(vals[i], vals[j])

Reorder(series, p) ==
    [index |-> [i \in 1 .. Len(series.index) |-> series.index[p[i]]],
     values |-> [i \in 1 .. Len(series.values) |-> series.values[p[i]]]]

\* Mutant of SortValues: the sort left out.
SortValuesOmitted(series) == {series}

\* Series.sort_values() with its default kind="quicksort", which is not a
\* stable sort: every ascending arrangement of the entries is a possible
\* result, so entries with equal values may come out in any order.
SortValues(series) ==
    {Reorder(series, p) : p \in
        {q \in Permutations(1 .. Len(series.index)) :
            Ascending(Reorder(series, q).values)}}

\* Series.reset_index(): a frame with the index as the column REGION.
ResetIndexRegion(series) ==
    [i \in 1 .. Len(series.index) |->
        [REGION |-> series.index[i], SENTIMENT_SCORE |-> series.values[i]]]

\* Series.reset_index() of the three-key groupby.
ResetIndexTriple(series) ==
    [i \in 1 .. Len(series.index) |->
        [REGION |-> series.index[i][1], PRODUCT |-> series.index[i][2],
         STATUS |-> series.index[i][3], SENTIMENT_SCORE |-> series.values[i]]]

\* Line 72.
RegionGuard == "REGION" \in Cols

\* Line 73.
RegionSentiment(t) == SortValues(GroupByMean(t, RegionKeys(t), RegionOrder))

\* Lines 72-84 on a table with REGION and SENTIMENT_SCORE.
RegionAggregate ==
    /\ pc = "region"
    /\ RegionGuard
    /\ "SENTIMENT_SCORE" \in Cols
    /\ \E sorted \in RegionSentiment(filtered_df) :
          /\ region_sentiment' = sorted
          /\ chart_region' = [data |-> ResetIndexRegion(sorted), ysort |-> "-x"]
    /\ defined' = defined \cup {"region_sentiment", "chart_region"}
    /\ pc' = "issues"
    /\ UNCHANGED <<reviews_with_sentiment, df, products, selected_products,
                   min_date, max_date, start_date, end_date, filtered_df,
                   grouped_issues, num_cols, user_question, df_string, prompt,
                   calls, written, error>>

\* Line 73 on a table with REGION and without SENTIMENT_SCORE: selecting the
\* column from the groupby raises.
RegionAggregateKeyError ==
    /\ pc = "region"
    /\ RegionGuard
    /\ "SENTIMENT_SCORE" \notin Cols
    /\ error' = "KeyError: 'Column not found: SENTIMENT_SCORE'"
    /\ pc' = "error"
    /\ UNCHANGED <<reviews_with_sentiment, df, defined, products,
                   selected_products, min_date, max_date, start_date, end_date,
                   filtered_df, region_sentiment, chart_region, grouped_issues,
                   num_cols, user_question, df_string, prompt, calls, written>>

\* Line 72 false.
RegionSkipped ==
    /\ pc = "region"
    /\ ~RegionGuard
    /\ pc' = "issues"
    /\ UNCHANGED <<reviews_with_sentiment, df, defined, products,
                   selected_products, min_date, max_date, start_date, end_date,
                   filtered_df, region_sentiment, chart_region, grouped_issues,
                   num_cols, user_question, df_string, prompt, calls, written,
                   error>>

\* Line 90.
IssuesGuard == {"REGION", "PRODUCT", "STATUS", "SENTIMENT_SCORE"} \subseteq Cols

\* Lines 91-95.
GroupedIssues(t) == ResetIndexTriple(GroupByMean(t, TripleKeys(t), TripleOrder))

\* Line 98.
MaxFacetCols == 3

Min(a, b) == IF a <= b THEN a ELSE b

\* Lines 90-111.
IssuesAggregate ==
    /\ pc = "issues"
    /\ IssuesGuard
    /\ grouped_issues' = GroupedIssues(filtered_df)
    /\ num_cols' = Min(MaxFacetCols,
                       Cardinality({grouped_issues'[i].PRODUCT :
                                       i \in 1 .. Len(grouped_issues')}))
    /\ defined' = defined \cup {"grouped_issues", "num_cols"}
    /\ pc' = "ask"
    /\ UNCHANGED <<reviews_with_sentiment, df, products, selected_products,
                   min_date, max_date, start_date, end_date, filtered_df,
                   region_sentiment, chart_region, user_question, df_string,
                   prompt, calls, written, error>>

\* Line 90 false.
IssuesSkipped ==
    /\ pc = "issues"
    /\ ~IssuesGuard
    /\ pc' = "ask"
    /\ UNCHANGED <<reviews_with_sentiment, df, defined, products,
                   selected_products, min_date, max_date, start_date, end_date,
                   filtered_df, region_sentiment, chart_region, grouped_issues,
                   num_cols, user_question, df_string, prompt, calls, written,
                   error>>

\* ------------------------------------------------------------ chatbot
\* The text to_string prints for one cell.
RenderCell(c, v) ==
    CASE c = "DATE" -> IF v.kind = "ts" THEN "t" \o ToString(v.t) ELSE "NaT"
      [] c = "SENTIMENT_SCORE" -> ToString(v)
      [] OTHER -> v

ColumnList(cols) == SelectSeq(ColumnOrder, LAMBDA c : c \in cols)

\* Mutant of DfToString: only the first row is printed.
DfToStringFirstRow(t, cols) ==
    LET cl == SelectSeq(ColumnOrder, LAMBDA c : c \in cols)
    IN  IF t = <<>>
        THEN <<(<<"Empty DataFrame">>), <<"Columns:">> \o cl, (<<"Index: []">>)>>
        ELSE <<cl, [j \in 1 .. Len(cl) |-> RenderCell(cl[j], t[1][cl[j]])]>>

\* DataFrame.to_string(index=False): a header line and one line per row, every
\* column on every line; an empty frame prints its column list instead.
DfToString(t, cols) ==
    LET cl == ColumnList(cols)
    IN  IF t = <<>>
        THEN <<(<<"Empty DataFrame">>), <<"Columns:">> \o cl, (<<"Index: []">>)>>
        ELSE <<cl>> \o
             [i \in 1 .. Len(t) |->
                 [j \in 1 .. Len(cl) |-> RenderCell(cl[j], t[i][cl[j]])]]

RECURSIVE JoinLines(_)
JoinLines(lines) ==
    IF lines = <<>> THEN <<>>
    ELSE IF Len(lines) = 1 THEN Head(lines)
         ELSE Head(lines) \o <<"\n">> \o JoinLines(Tail(lines))

\* Line 121: the pieces of the f-string in order.
Prompt(question, text) ==
    <<"Answer this question using the dataset: ", question, " <context>">>
        \o JoinLines(text) \o <<"</context>">>

\* Mutant of AskEmpty: the completion path is taken with the text box empty.
AskEmptyStillCalls ==
    /\ pc = "ask"
    /\ user_question' = ""
    /\ df_string' = DfToString(filtered_df, Cols)
    /\ prompt' = Prompt(user_question', df_string')
    /\ defined' = defined \cup {"user_question", "df_string", "prompt"}
    /\ pc' = "complete"
    /\ UNCHANGED <<reviews_with_sentiment, df, products, selected_products,
                   min_date, max_date, start_date, end_date, filtered_df,
                   region_sentiment, chart_region, grouped_issues, num_cols,
                   calls, written, error>>

\* Lines 117-119 with the text box empty.
AskEmpty ==
    /\ pc = "ask"
    /\ user_question' = ""
    /\ defined' = defined \cup {"user_question"}
    /\ pc' = "done"
    /\ UNCHANGED <<reviews_with_sentiment, df, products, selected_products,
                   min_date, max_date, start_date, end_date, filtered_df,
                   region_sentiment, chart_region, grouped_issues, num_cols,
                   df_string, prompt, calls, written, error>>

\* Lines 117-121 with a question in the text box.
AskQuestion ==
    /\ pc = "ask"
    /\ \E q \in Questions \ {""} : user_question' = q
    /\ df_string' = DfToString(filtered_df, Cols)
    /\ prompt' = Prompt(user_question', df_string')
    /\ defined' = defined \cup {"user_question", "df_string", "prompt"}
    /\ pc' = "complete"
    /\ UNCHANGED <<reviews_with_sentiment, df, products, selected_products,
                   min_date, max_date, start_date, end_date, filtered_df,
                   region_sentiment, chart_region, grouped_issues, num_cols,
                   calls, written, error>>

\* Lines 123-128: the completion call returns and the answer is written.
CompletionAnswers ==
    /\ pc = "complete"
    /\ calls' = calls + 1
    /\ written' = TRUE
    /\ pc' = "done"
    /\ UNCHANGED <<reviews_with_sentiment, df, defined, products,
                   selected_products, min_date, max_date, start_date, end_date,
                   filtered_df, region_sentiment, chart_region, grouped_issues,
                   num_cols, user_question, df_string, prompt, error>>

\* Line 123: the completion call raises (network, authentication, quota).
CompletionRaises ==
    /\ pc = "complete"
    /\ calls' = calls + 1
    /\ error' = "OpenAIError"
    /\ pc' = "error"
    /\ UNCHANGED <<reviews_with_sentiment, df, defined, products,
                   selected_products, min_date, max_date, start_date, end_date,
                   filtered_df, region_sentiment, chart_region, grouped_issues,
                   num_cols, user_question, df_string, prompt, written>>

\* The next interaction: the script runs again from the top (line 27 reloads
\* the table), with nothing kept from the run before.
Rerun ==
    /\ pc \in {"done", "error"}
    /\ df' = reviews_with_sentiment
    /\ pc' = "products"
    /\ defined' = {"df"}
    /\ products' = <<>>
    /\ selected_products' = {}
    /\ min_date' = NaT
    /\ max_date' = NaT
    /\ start_date' = None
    /\ end_date' = None
    /\ filtered_df' = <<>>
    /\ region_sentiment' = [index |-> <<>>, values |-> <<>>]
    /\ chart_region' = [data |-> <<>>, ysort |-> ""]
    /\ grouped_issues' = <<>>
    /\ num_cols' = 0
    /\ user_question' = ""
    /\ df_string' = <<>>
    /\ prompt' = <<>>
    /\ calls' = 0
    /\ written' = FALSE
    /\ error' = ""
    /\ UNCHANGED reviews_with_sentiment

Next ==
    \/ SelectProducts
    \/ SelectProductsKeyError
    \/ DateRange
    \/ DateRangePartial
    \/ NoDateColumn
    \/ Filter
    \/ RegionAggregate
    \/ RegionAggregateKeyError
    \/ RegionSkipped
    \/ IssuesAggregate
    \/ IssuesSkipped
    \/ AskEmpty
    \/ AskQuestion
    \/ CompletionAnswers
    \/ CompletionRaises
    \/ Rerun

Spec == Init /\ [][Next]_vars

\* ------------------------------------------------------------ properties
IsSubSeq(s, t) ==
    \E f \in [1 .. Len(s) -> 1 .. Len(t)] :
        /\ \A i, j \in 1 .. Len(s) : i < j => f[i] < f[j]
        /\ \A i \in 1 .. Len(s) : s[i] = t[f[i]]

RECURSIVE TotalScore(_, _)
TotalScore(t, I) ==
    IF I = {} THEN 0
    ELSE LET i == CHOOSE k \in I : TRUE
         IN  t[i]["SENTIMENT_SCORE"] + TotalScore(t, I \ {i})

\* m is the arithmetic mean of the SENTIMENT_SCORE of the rows I of t.
IsMeanOf(m, t, I) ==
    /\ I # {}
    /\ m.den > 0
    /\ m.num * Cardinality(I) = TotalScore(t, I) * m.den

IntervalActive == Truthy(start_date) /\ Truthy(end_date)

\* C1: the filtered table is a sub-collection of the source table (rows
\* unaltered, order and duplicates kept) and each of its records has PRODUCT
\* in the selected set.
C1_FilteredIsSubcollection ==
    "filtered_df" \in defined =>
        /\ IsSubSeq(filtered_df, df)
        /\ \A i \in 1 .. Len(filtered_df) :
              filtered_df[i]["PRODUCT"] \in selected_products

C1_Witness ==
    /\ "filtered_df" \in defined
    /\ Len(df) = 2
    /\ df[1]["PRODUCT"] \notin selected_products
    /\ df[2]["PRODUCT"] \in selected_products
    /\ Len(filtered_df) = 1

\* The record r is dated on a day of the chosen interval, both end days
\* included.
OnChosenDays(r) ==
    /\ r["DATE"].kind = "ts"
    /\ start_date.t <= r["DATE"].t \div TicksPerDay
    /\ r["DATE"].t \div TicksPerDay <= end_date.t

SelectedOnChosenDays(r) == IsinSelected(r) /\ OnChosenDays(r)

\* C2: with a date interval active the filtered table is exactly the
\* selected-product records dated on a day of [start, end], the start day and
\* the end day included, records without a parseable DATE dropped; without a
\* DATE column no date predicate is applied.
C2_InclusiveInterval ==
    "filtered_df" \in defined =>
        /\ IntervalActive =>
              filtered_df = SelectSeq(df, SelectedOnChosenDays)
        /\ "DATE" \notin Cols =>
              /\ ~IntervalActive
              /\ filtered_df = SelectSeq(df, IsinSelected)

DefaultSelection ==
    /\ selected_products = Range(products)
    /\ "DATE" \in Cols =>
          /\ start_date = DateOf(min_date)
          /\ end_date = DateOf(max_date)

\* C3: with the default selection (every product, the observed minimum and
\* maximum DATE) the filtered table equals the full source table, records
\* without a parseable DATE included.
C3_DefaultIsIdentity ==
    ("filtered_df" \in defined /\ DefaultSelection) => filtered_df = df

RowsOfRegion(k) ==
    {i \in 1 .. Len(filtered_df) : filtered_df[i]["REGION"] = k}

\* C4: the region aggregate has one entry per region of the filtered table,
\* its value the arithmetic mean of SENTIMENT_SCORE over the filtered records
\* of that region, in ascending order of the means, and the frame handed to
\* the chart holds the same entries in the same order.
C4_RegionMeansAscending ==
    "region_sentiment" \in defined =>
        LET idx == region_sentiment.index
            vals == region_sentiment.values
        IN  /\ Len(vals) = Len(idx)
            /\ Range(idx) = {filtered_df[i]["REGION"] : i \in 1 .. Len(filtered_df)}
            /\ Cardinality(Range(idx)) = Len(idx)
            /\ \A i \in 1 .. Len(idx) :
                  IsMeanOf(vals[i], filtered_df, RowsOfRegion(idx[i]))
            /\ \A i, j \in 1 .. Len(idx) :
                  i < j => vals[i].num * vals[j].den <= vals[j].num * vals[i].den
            /\ Len(chart_region.data) = Len(idx)
            /\ \A i \in 1 .. Len(idx) :
                  /\ chart_region.data[i].REGION = idx[i]
                  /\ chart_region.data[i].SENTIMENT_SCORE = vals[i]

C4_Witness ==
    /\ "region_sentiment" \in defined
    /\ Len(filtered_df) = 3
    /\ region_sentiment.index = <<"B", "A">>
    /\ region_sentiment.values[1].den = 2
    /\ region_sentiment.values[2] # region_sentiment.values[1]

ObservedTriples ==
    {<<filtered_df[i]["REGION"], filtered_df[i]["PRODUCT"],
       filtered_df[i]["STATUS"]>> : i \in 1 .. Len(filtered_df)}

EntryTriple(e) == <<e.REGION, e.PRODUCT, e.STATUS>>

RowsOfTriple(k) ==
    {i \in 1 .. Len(filtered_df) :
        <<filtered_df[i]["REGION"], filtered_df[i]["PRODUCT"],
          filtered_df[i]["STATUS"]>> = k}

\* C5: the region-product-status aggregate has exactly one entry per distinct
\* (REGION, PRODUCT, STATUS) triple of the filtered table, none for a triple
\* without records, and each entry's value is the mean SENTIMENT_SCORE of the
\* records of its triple.
C5_OneEntryPerObservedTriple ==
    "grouped_issues" \in defined =>
        /\ {EntryTriple(grouped_issues[i]) : i \in 1 .. Len(grouped_issues)}
              = ObservedTriples
        /\ Len(grouped_issues) = Cardinality(ObservedTriples)
        /\ \A i \in 1 .. Len(grouped_issues) :
              IsMeanOf(grouped_issues[i].SENTIMENT_SCORE, filtered_df,
                       RowsOfTriple(EntryTriple(grouped_issues[i])))

C5_Witness ==
    /\ "grouped_issues" \in defined
    /\ Len(filtered_df) = 2
    /\ Len(grouped_issues) = 2
    /\ grouped_issues[1].REGION # grouped_issues[2].REGION
    /\ grouped_issues[1].PRODUCT # grouped_issues[2].PRODUCT
    /\ grouped_issues[1].STATUS # grouped_issues[2].STATUS

\* The run got past both aggregates to the question step.
ReachedQuestion == pc \in {"ask", "complete", "done"} \/ "user_question" \in defined

\* C6: with an empty filtered table the run raises no error, both aggregates
\* are empty, and the run continues to the question step.
C6_EmptyFilteredNoError ==
    ("filtered_df" \in defined /\ filtered_df = <<>>) =>
        /\ pc = "error" => ReachedQuestion
        /\ "region_sentiment" \in defined => region_sentiment.index = <<>>
        /\ "grouped_issues" \in defined => grouped_issues = <<>>

\* C7: each aggregate is computed only when all of its required columns exist,
\* and when one is absent the aggregate is skipped and the run goes on without
\* an error.
C7_AggregatesGuardedByColumns ==
    /\ "region_sentiment" \in defined => {"REGION", "SENTIMENT_SCORE"} \subseteq Cols
    /\ "grouped_issues" \in defined =>
          {"REGION", "PRODUCT", "STATUS", "SENTIMENT_SCORE"} \subseteq Cols
    /\ ("filtered_df" \in defined /\ pc = "error") => ReachedQuestion

\* C8: the prompt is the fixed lead-in, the question verbatim, the opening
\* marker, the rendering of the filtered table (the header and then every
\* row, every column of each) and the closing marker, and nothing else; every
\* position of it is determined by the filtered table and the question.
C8_PromptHoldsQuestionAndWholeTable ==
    "prompt" \in defined =>
        LET cl == ColumnList(Cols)
            w == Len(cl)
            n == Len(filtered_df)
        IN  /\ prompt[1] = "Answer this question using the dataset: "
            /\ prompt[2] = user_question
            /\ prompt[3] = " <context>"
            /\ prompt[Len(prompt)] = "</context>"
            /\ n > 0 =>
                  /\ Len(prompt) = (n + 1) * (w + 1) + 3
                  /\ \A j \in 1 .. w : prompt[3 + j] = cl[j]
                  /\ \A i \in 1 .. n :
                        /\ prompt[3 + i * (w + 1)] = "\n"
                        /\ \A j \in 1 .. w :
                              prompt[3 + i * (w + 1) + j]
                                  = RenderCell(cl[j], filtered_df[i][cl[j]])
            /\ n = 0 =>
                  /\ Len(prompt) = w + 9
                  /\ prompt[4] = "Empty DataFrame"
                  /\ \A j \in 1 .. w : prompt[6 + j] = cl[j]

C8_Witness ==
    /\ "prompt" \in defined
    /\ Len(filtered_df) = 3
    /\ filtered_df[1]["REGION"] # filtered_df[2]["REGION"]
    /\ filtered_df[2]["SENTIMENT_SCORE"] # filtered_df[3]["SENTIMENT_SCORE"]

\* C9: in a run the prompt is built and the completion service called exactly
\* when the question read from the text box is non-empty; the call happens at
\* most once, after the filter and both aggregate steps, and the prompt is
\* built from the filtered table of the run.
C9_CompletionOnlyForQuestion ==
    /\ calls <= 1
    /\ "prompt" \in defined <=> ("user_question" \in defined /\ user_question # "")
    /\ pc = "complete" <=> ("prompt" \in defined /\ calls = 0)
    /\ calls = 1 => ("prompt" \in defined /\ pc \in {"done", "error"})
    /\ pc = "done" => (calls = 1 <=> user_question # "")
    /\ "prompt" \in defined =>
          /\ "filtered_df" \in defined
          /\ RegionGuard => "region_sentiment" \in defined
          /\ IssuesGuard => "grouped_issues" \in defined
          /\ prompt = Prompt(user_question, DfToString(filtered_df, Cols))

C9_Witness ==
    /\ pc = "done"
    /\ calls = 1
    /\ written
    /\ Len(filtered_df) = 1
    /\ Len(df) = 2

FirstRowOfRegion(k) ==
    CHOOSE i \in RowsOfRegion(k) : \A j \in RowsOfRegion(k) : i <= j

\* C10 as stated: regions with equal means keep their first-encountered
\* order in the sorted region aggregate.
C10_TiesKeepFirstEncounteredOrder ==
    "region_sentiment" \in defined =>
        \A i, j \in 1 .. Len(region_sentiment.index) :
            (/\ region_sentiment.values[i] = region_sentiment.values[j]
             /\ FirstRowOfRegion(region_sentiment.index[i])
                    < FirstRowOfRegion(region_sentiment.index[j]))
                => i < j

\* C10 amended: regions with equal means are adjacent in the sorted region
\* aggregate, that is, no region with a different mean lies between two
\* regions with the same mean; their relative order is not fixed.
C10_TiesAreAdjacent ==
    "region_sentiment" \in defined =>
        \A i, j, k \in 1 .. Len(region_sentiment.index) :
            (i < j /\ j < k /\ region_sentiment.values[i] = region_sentiment.values[k])
                => region_sentiment.values[j] = region_sentiment.values[i]

C10_Witness ==
    /\ "region_sentiment" \in defined
    /\ Len(region_sentiment.index) = 3
    /\ filtered_df[1]["REGION"] = "B"
    /\ region_sentiment.index[1] = "A"
    /\ region_sentiment.index[2] = "B"
    /\ region_sentiment.values[1] = region_sentiment.values[2]
    /\ region_sentiment.values[3] # region_sentiment.values[2]

====
